---- MODULE Spec2Model ----
(***************************************************************************)
(* Model of ex_pairwise_average.py: the E-LPIPS barycenter script.         *)
(*                                                                         *)
(* Floating-point image values are kept as integers in units of 1e-6       *)
(* (ONE == 1.0), so TOLERANCE = 0.00001 is 10 units.  The script is a      *)
(* straight-line program; pc is its position, and every sess.run call is   *)
(* one step.  Within one sess.run the TensorFlow executor orders only ops  *)
(* linked by data or control dependencies; fetches that are not linked to  *)
(* the update ops may observe a variable before or after its assignment,   *)
(* which is modelled as a choice.                                          *)
(***************************************************************************)
EXTENDS Integers, Sequences, FiniteSets

VARIABLES
    args,         \* parsed command line: metric, images, steps, learning_rate
    pc,           \* position in the script
    err,          \* message of the raised exception, "" when none
    dirCreated,   \* os.makedirs(args.outdir) has run
    filesRead,    \* indices of args.images whose file has been read
    written,      \* names of the files written into outdir
    last_written, \* the latest file written in this iteration: [name, data]
    images,       \* the list `images`: loaded arrays [shape, val]
    tf_X,         \* the variable tf_X, flattened
    tf_step,      \* the variable 'step'
    i,            \* loop variable of the main loop
    checkpoints,  \* the set `checkpoints`
    results,      \* the dict `results` of the checkpoint branch
    fed_X,        \* value of tf_X the metric and gradient of this iteration consumed
    lr_step,      \* value of 'step' the learning-rate ops of this iteration read
    sched,        \* checkpoint scheduler on its own: [a, b, cp_a, cp_b, done]
    rate          \* learning-rate scheduler on its own: [lr, i, cur, next, done]

vars == <<args, pc, err, dirCreated, filesRead, written, last_written, images,
          tf_X, tf_step, i, checkpoints, results, fed_X, lr_step, sched, rate>>

-----------------------------------------------------------------------------
(* Units and program constants *)

ONE == 1000000
TOLERANCE == 10
HALF == 500000

DensePrefix == {0, 1, 2, 3, 5, 7, 10, 15, 20, 30, 50, 70, 100, 150, 200, 300,
                400, 600, 900, 1200, 1500}
StrideStart == 2000
Stride == 500
SaveEvery == 10000

SupportedMetrics == {"elpips_vgg", "elpips_squeeze_maxpool", "lpips_vgg", "lpips_squeeze"}

(* Bounds of the model *)
MaxSmallSteps == 12
BigSteps == 10000
MaxSched == 2600
MaxRateStep == 11000

Min(a, b) == IF a <= b THEN a ELSE b
Max(a, b) == IF a >= b THEN a ELSE b
Abs(a) == IF a < 0 THEN 0 - a ELSE a

-----------------------------------------------------------------------------
(* Checkpoint scheduler, lines 153-157 *)

\* range(2000, 1 + steps, 500)
StrideRange(total_steps) ==
    {c \in StrideStart..total_steps : (c - StrideStart) % Stride = 0}

\* Off-by-one variant: the final checkpoint is the last zero-based index.
CheckpointsLastIndex(total_steps) ==
    DensePrefix \cup StrideRange(total_steps) \cup {total_steps - 1}

\* Variant without the final checkpoint.
CheckpointsNoFinal(total_steps) ==
    DensePrefix \cup StrideRange(total_steps)

Checkpoints(total_steps) ==
    DensePrefix \cup StrideRange(total_steps) \cup {total_steps}

-----------------------------------------------------------------------------
(* Learning-rate schedule, lines 108-112, in fixed point.                  *)
(* A rate is the fraction num/den.                                          *)

RECURSIVE IsqrtIn(_, _, _)
\* largest r in lo..hi with r*r <= n
IsqrtIn(n, lo, hi) ==
    IF lo >= hi THEN lo
    ELSE LET mid == (lo + hi + 1) \div 2
         IN  IF mid * mid <= n THEN IsqrtIn(n, mid, hi) ELSE IsqrtIn(n, lo, mid - 1)

Isqrt(n) == IsqrtIn(n, 0, 46340)

\* 4 * (sqrt(100^2 + step^2) - 100): the gradual start, in quarters
Warm4(step) == Isqrt(16 * (100 * 100 + step * step)) - 400

\* warm ^ 0.75 = sqrt(warm) * sqrt(sqrt(warm)), rounded down
Pow075(w4) ==
    LET a == Isqrt(w4 * 2500)      \* 100 * warm^0.5
        b == Isqrt(a * 100)        \* 100 * warm^0.25
    IN  (a * b) \div 10000

\* 50 * (1.0 + 0.02 * warm^0.75)
Denominator50(step) == 50 + Pow075(Warm4(step))

\* Variant multiplying by the decay factor instead of dividing by it.
LearningRateMultiplied(learning_rate, step) ==
    [num |-> learning_rate * Denominator50(step), den |-> 50]

LearningRate(learning_rate, step) ==
    [num |-> learning_rate * 50, den |-> Denominator50(step)]

RatePositive(r) == (r.num > 0 /\ r.den > 0) \/ (r.num < 0 /\ r.den < 0)
\* r <= s for fractions with positive denominators
RateLeq(r, s) == r.num * s.den <= s.num * r.den

-----------------------------------------------------------------------------
(* Elementwise tensor operations *)

ClipValue(x, lo, hi) == Min(Max(x, lo), hi)

\* Variant clipping to the closed colour range [0, 1].
ClipUnit(X) == [k \in DOMAIN X |-> ClipValue(X[k], 0, ONE)]

\* tf.clip_by_value(tf_X, TOLERANCE, 1.0 - TOLERANCE), line 139
ClipTolerance(X) == [k \in DOMAIN X |-> ClipValue(X[k], TOLERANCE, ONE - TOLERANCE)]

\* tf.cast(tf.floor(255.0 * tf.clip_by_value(tf_X, 0.0, 1.0) + 0.5), tf.uint8), line 102
X_uint8(X) == [k \in DOMAIN X |-> (255 * ClipValue(X[k], 0, ONE) + HALF) \div ONE]

\* (0.5 + 255.0 * image).astype(np.uint8), lines 77, 78, 87
ToUint8(val) == ((HALF + 255 * val) \div ONE) % 256

\* elpips.Metric.forward for one reference: a distance, zero iff equal images
Metric(ref, X) ==
    LET RECURSIVE Sum(_)
        Sum(k) == IF k = 0 THEN 0 ELSE Abs(ref - X[k]) + Sum(k - 1)
    IN  Sum(Len(X)) \div 1000

\* tf_loss = tf.square(tf_dist1) + tf.square(tf_dist2), line 130
Loss(imgs, X) ==
    LET d1 == Metric(imgs[1].val, X)
        d2 == Metric(imgs[2].val, X)
    IN  d1 * d1 + d2 * d2

\* Variant advancing the counter twice per run.
IncreaseStepTwice(step) == step + 2

\* tf.assign(tf_step, tf_step + 1), line 106
IncreaseStep(step) == step + 1

-----------------------------------------------------------------------------
(* File names *)

RECURSIVE Digits(_)
Digits(n) == IF n < 10 THEN <<n>> ELSE Append(Digits(n \div 10), n % 10)

RECURSIVE ZeroPad(_, _)
ZeroPad(ds, width) == IF Len(ds) >= width THEN ds ELSE ZeroPad(<<0>> \o ds, width)

\* "{:06d}".format(n)
Fmt06(n) == ZeroPad(Digits(n), 6)

FixedName(stem) == [prefix |-> stem, num |-> <<>>, ext |-> ".png"]
PngName(n) == [prefix |-> "", num |-> Fmt06(n), ext |-> ".png"]
NpyName(n) == [prefix |-> "save_", num |-> Fmt06(n), ext |-> ".npy"]

NoFile == [name |-> FixedName(""), data |-> <<>>]

\* imageio.imwrite / np.save: create or replace the file
WriteFile(name, data) ==
    /\ written' = written \cup {name}
    /\ last_written' = [name |-> name, data |-> data]

-----------------------------------------------------------------------------
(* Image loading, lines 50-59 and 67-68 *)

\* ext.lower()
Lower(ext) ==
    CASE ext = ".PNG" -> ".png"
      [] ext = ".JPG" -> ".jpg"
      [] ext = ".NPY" -> ".npy"
      [] OTHER -> ext

KnownExt(ext) == Lower(ext) \in {".npy", ".png", ".jpg"}

\* value of the loaded array: np.load as stored, imread(...) / 255.0
LoadedVal(file) ==
    IF Lower(file.ext) = ".npy" THEN file.pix ELSE (file.pix * ONE) \div 255

\* [:,:,0:3] needs three axes
Sliceable(shape) == Len(shape) >= 3
SliceChannels(shape) == [shape EXCEPT ![3] = Min(shape[3], 3)]

\* np.expand_dims(image, 0)
ExpandDims(shape) == <<1>> \o shape

RECURSIVE Product(_)
Product(s) == IF s = <<>> THEN 1 ELSE Head(s) * Product(Tail(s))

\* Variant without the check of lines 46-47.
MetricSupportedAny(metric) == TRUE

\* line 46
MetricSupported(metric) == metric \in SupportedMetrics

\* the loop of lines 73-75 finds an image whose shape differs from images[0]
WrongShape(imgs) == \E n \in DOMAIN imgs : imgs[n].shape # imgs[1].shape

-----------------------------------------------------------------------------
(* Inputs *)

\* Files the two image paths may name: extension, array shape and the value
\* stored for every pixel (a byte for .png/.jpg, a float in units for .npy).
ImageFiles ==
    { [ext |-> ".npy", shape |-> <<1, 1, 1>>, pix |-> 250000],
      [ext |-> ".PNG", shape |-> <<1, 1, 4>>, pix |-> 255],
      [ext |-> ".png", shape |-> <<2, 1, 1>>, pix |-> 0],
      [ext |-> ".jpg", shape |-> <<1, 1>>,    pix |-> 128],
      [ext |-> ".bmp", shape |-> <<1, 1, 1>>, pix |-> 0] }

NpyFile == [ext |-> ".npy", shape |-> <<1, 1, 1>>, pix |-> 250000]

\* Every pairing of metric and image files, with --steps=0.
StartupArgs ==
    [metric : {"elpips_vgg", "vgg"}, images : ImageFiles \X ImageFiles,
     steps : {0}, learning_rate : {30}]

\* Runs of several lengths on one valid pair of images.
SmallArgs ==
    [metric : {"lpips_squeeze"}, images : {<<NpyFile, NpyFile>>},
     steps : 1..MaxSmallSteps, learning_rate : {30}]

BigArgs ==
    [metric : {"elpips_squeeze_maxpool"}, images : {<<NpyFile, NpyFile>>},
     steps : {BigSteps}, learning_rate : {30}]

ArgChoices == StartupArgs \cup SmallArgs \cup BigArgs

\* Values one element of tf_X may have after an Adam update: below 0, exactly 0,
\* between 0 and TOLERANCE, inside, between 1-TOLERANCE and 1, exactly 1, above 1.
StepOutcomes == {0 - 5, 0, 5, HALF, ONE - 5, ONE, ONE + 5}

\* Values of 0.5 + 0.2 * randn after np.clip, line 86
InitOutcomes == {ClipValue(v, TOLERANCE, ONE - TOLERANCE) : v \in StepOutcomes}

NoStep == 0 - 1
NoResults == [loss |-> 0, learning_rate |-> [num |-> 0, den |-> 1], X_uint8 |-> <<>>]
NoSched == [a |-> 0, b |-> 0, cp_a |-> {}, cp_b |-> {}, done |-> FALSE]
NoRate == [lr |-> 0, i |-> 0, cur |-> [num |-> 0, den |-> 1],
           next |-> [num |-> 0, den |-> 1], done |-> FALSE]

-----------------------------------------------------------------------------
(* The script *)

Init ==
    /\ args \in ArgChoices
    /\ pc = "check_metric"
    /\ err = ""
    /\ dirCreated = FALSE
    /\ filesRead = {}
    /\ written = {}
    /\ last_written = NoFile
    /\ images = <<>>
    /\ tf_X = <<>>
    /\ tf_step = 0
    /\ i = 0
    /\ checkpoints = {}
    /\ results = NoResults
    /\ fed_X = <<>>
    /\ lr_step = NoStep
    /\ sched = NoSched
    /\ rate = NoRate

Raise(msg) ==
    /\ pc' = "error"
    /\ err' = msg

\* lines 46-47
CheckMetric ==
    /\ pc = "check_metric"
    /\ IF MetricSupported(args.metric)
          THEN pc' = "makedirs" /\ err' = err
          ELSE Raise("Unsupported metric.")
    /\ UNCHANGED <<args, dirCreated, filesRead, written, last_written, images, tf_X, tf_step, i,
                   checkpoints, results, fed_X, lr_step, sched, rate>>

\* line 63
MakeDirs ==
    /\ pc = "makedirs"
    /\ dirCreated' = TRUE
    /\ pc' = "load_src"
    /\ UNCHANGED <<args, err, filesRead, written, last_written, images, tf_X, tf_step, i,
                   checkpoints, results, fed_X, lr_step, sched, rate>>

\* load_image(args.images[n])[:,:,0:3], lines 50-59 with 67 or 68;
\* the arrays are appended to `images` at lines 70-71
LoadImage(n, here, next) ==
    /\ pc = here
    /\ LET file == args.images[n]
       IN  IF ~KnownExt(file.ext)
              THEN Raise("Unknown image type.") /\ UNCHANGED <<filesRead, images>>
              ELSE /\ filesRead' = filesRead \cup {n}
                   /\ IF ~Sliceable(file.shape)
                         THEN Raise("too many indices for array") /\ UNCHANGED images
                         ELSE /\ images' = Append(images,
                                     [shape |-> ExpandDims(SliceChannels(file.shape)),
                                      val |-> LoadedVal(file)])
                              /\ pc' = next
                              /\ err' = err
    /\ UNCHANGED <<args, dirCreated, written, last_written, tf_X, tf_step, i, checkpoints,
                   results, fed_X, lr_step, sched, rate>>

LoadSrc == LoadImage(1, "load_src", "load_dest")
LoadDest == LoadImage(2, "load_dest", "check_shapes")

\* lines 73-75
CheckShapes ==
    /\ pc = "check_shapes"
    /\ IF WrongShape(images)
          THEN Raise("Image has wrong shape.")
          ELSE pc' = "write_inputs" /\ err' = err
    /\ UNCHANGED <<args, dirCreated, filesRead, written, last_written, images, tf_X, tf_step, i,
                   checkpoints, results, fed_X, lr_step, sched, rate>>

ImageData(img) == [k \in 1..Product(img.shape) |-> ToUint8(img.val)]

\* lines 77-78
WriteInputs ==
    /\ pc = "write_inputs"
    /\ written' = written \cup {FixedName("src_image"), FixedName("dest_image")}
    /\ last_written' = [name |-> FixedName("dest_image"), data |-> ImageData(images[2])]
    /\ pc' = "init_image"
    /\ UNCHANGED <<args, err, dirCreated, filesRead, images, tf_X, tf_step, i,
                   checkpoints, results, fed_X, lr_step, sched, rate>>

\* lines 81-87: the random initial image; lines 101, 105, 147: the variables
InitImage ==
    /\ pc = "init_image"
    /\ \E init_image \in [1..Product(images[1].shape) -> InitOutcomes] :
          /\ WriteFile(FixedName("initial_image"),
                       [k \in DOMAIN init_image |-> ToUint8(init_image[k])])
          /\ tf_X' = init_image
    /\ tf_step' = 0
    /\ pc' = "checkpoints"
    /\ UNCHANGED <<args, err, dirCreated, filesRead, images, i, checkpoints,
                   results, fed_X, lr_step, sched, rate>>

\* lines 153-157
BuildCheckpoints ==
    /\ pc = "checkpoints"
    /\ checkpoints' = Checkpoints(args.steps)
    /\ i' = 0
    /\ pc' = "loop"
    /\ UNCHANGED <<args, err, dirCreated, filesRead, written, last_written, images, tf_X, tf_step,
                   results, fed_X, lr_step, sched, rate>>

\* line 162 and sess.run([tf_fix_X]), line 163; then the test of line 165.
\* What the previous iteration fetched and wrote is dead from here on (results
\* is rebuilt at line 172) and is dropped.
FixX ==
    /\ pc = "loop"
    /\ i < 1 + args.steps
    /\ tf_X' = ClipTolerance(tf_X)
    /\ pc' = IF i \notin checkpoints THEN "iterate" ELSE "stats"
    /\ results' = NoResults
    /\ last_written' = NoFile
    /\ fed_X' = <<>>
    /\ lr_step' = NoStep
    /\ UNCHANGED <<args, err, dirCreated, filesRead, written, images, tf_step, i,
                   checkpoints, sched, rate>>

\* One run of tf_minimize (lines 133-135).  The forward and backward pass read
\* tf_X before ApplyAdam writes it (data dependency); ApplyAdam runs after
\* tf_increase_step (control dependency).  The ops of tf_learning_rate (lines
\* 108-112) were created outside the control_dependencies block: their read of
\* 'step' is not ordered with the assignment.
StepReads == {tf_step, IncreaseStep(tf_step)}

Minimize(new_X, step_read) ==
    /\ fed_X' = tf_X
    /\ lr_step' = step_read
    /\ tf_step' = IncreaseStep(tf_step)
    /\ tf_X' = new_X

\* sess.run([tf_minimize]), line 167
Iterate ==
    /\ pc = "iterate"
    /\ \E new_X \in [DOMAIN tf_X -> StepOutcomes], step_read \in StepReads :
          Minimize(new_X, step_read)
    /\ i' = i + 1
    /\ pc' = "loop"
    /\ UNCHANGED <<args, err, dirCreated, filesRead, written, last_written, images, checkpoints,
                   results, sched, rate>>

\* sess.run(kernels), lines 170-195.  tf_loss is the value the gradient was
\* computed from; tf_X_uint8 (line 102) has no dependency linking it to
\* ApplyAdam and reads tf_X before or after the update.
Stats ==
    /\ pc = "stats"
    /\ \E new_X \in [DOMAIN tf_X -> StepOutcomes], step_read \in StepReads :
          /\ Minimize(new_X, step_read)
          /\ \E seen \in {tf_X, new_X} :
                results' = [loss |-> Loss(images, tf_X),
                            learning_rate |-> LearningRate(args.learning_rate, step_read),
                            X_uint8 |-> X_uint8(seen)]
    /\ pc' = "png"
    /\ UNCHANGED <<args, err, dirCreated, filesRead, written, last_written, images, i,
                   checkpoints, sched, rate>>

\* Variant saving the raw array at every checkpoint.
IsSaveIterationAlways(n) == TRUE

\* line 204
IsSaveIteration(n) == n % SaveEvery = 0

\* lines 198-204
WritePng ==
    /\ pc = "png"
    /\ WriteFile(PngName(i), results.X_uint8)
    /\ IF IsSaveIteration(i)
          THEN pc' = "npy" /\ i' = i
          ELSE pc' = "loop" /\ i' = i + 1
    /\ UNCHANGED <<args, err, dirCreated, filesRead, images, tf_X, tf_step,
                   checkpoints, results, fed_X, lr_step, sched, rate>>

\* lines 205-206: a separate run reads tf_X
SaveNpy ==
    /\ pc = "npy"
    /\ WriteFile(NpyName(i), tf_X)
    /\ i' = i + 1
    /\ pc' = "loop"
    /\ UNCHANGED <<args, err, dirCreated, filesRead, images, tf_X, tf_step,
                   checkpoints, results, fed_X, lr_step, sched, rate>>

\* range(1 + args.steps) is exhausted
Finish ==
    /\ pc = "loop"
    /\ ~(i < 1 + args.steps)
    /\ pc' = "done"
    /\ UNCHANGED <<args, err, dirCreated, filesRead, written, last_written, images, tf_X, tf_step,
                   i, checkpoints, results, fed_X, lr_step, sched, rate>>

Next ==
    \/ CheckMetric
    \/ MakeDirs
    \/ LoadSrc
    \/ LoadDest
    \/ CheckShapes
    \/ WriteInputs
    \/ InitImage
    \/ BuildCheckpoints
    \/ FixX
    \/ Iterate
    \/ Stats
    \/ WritePng
    \/ SaveNpy
    \/ Finish

Spec == Init /\ [][Next]_vars

-----------------------------------------------------------------------------
(* The checkpoint scheduler on its own: two step counts a < b *)

SchedDeltas == {1, 2, 7, 500, 1000}

IdleMain ==
    /\ args = [metric |-> "elpips_vgg", images |-> <<NpyFile, NpyFile>>,
               steps |-> 0, learning_rate |-> 30]
    /\ pc = "idle"
    /\ err = ""
    /\ dirCreated = FALSE
    /\ filesRead = {}
    /\ written = {}
    /\ last_written = NoFile
    /\ images = <<>>
    /\ tf_X = <<>>
    /\ tf_step = 0
    /\ i = 0
    /\ checkpoints = {}
    /\ results = NoResults
    /\ fed_X = <<>>
    /\ lr_step = NoStep

InitSched ==
    /\ IdleMain
    /\ \E a \in 0..MaxSched, d \in SchedDeltas :
          sched = [a |-> a, b |-> a + d, cp_a |-> {}, cp_b |-> {}, done |-> FALSE]
    /\ rate = NoRate

\* lines 153-157 for args.steps = a and for args.steps = b
SchedCompute ==
    /\ ~sched.done
    /\ sched' = [sched EXCEPT !.cp_a = Checkpoints(sched.a),
                              !.cp_b = Checkpoints(sched.b),
                              !.done = TRUE]
    /\ UNCHANGED <<args, pc, err, dirCreated, filesRead, written, last_written, images,
                   tf_X, tf_step, i, checkpoints, results, fed_X, lr_step, rate>>

NextSched == SchedCompute

SpecSched == InitSched /\ [][NextSched]_vars

-----------------------------------------------------------------------------
(* The learning-rate scheduler on its own: counter values i and i + 1 *)

\* base rates in thousandths: 0.001, the default 0.03, 1.0
RateChoices == {1, 30, 1000}

InitRate ==
    /\ IdleMain
    /\ sched = NoSched
    /\ \E lr \in RateChoices, n \in 0..MaxRateStep :
          rate = [NoRate EXCEPT !.lr = lr, !.i = n]

\* lines 108-112 with 'step' = i and with 'step' = i + 1
RateCompute ==
    /\ ~rate.done
    /\ rate' = [rate EXCEPT !.cur = LearningRate(rate.lr, rate.i),
                            !.next = LearningRate(rate.lr, rate.i + 1),
                            !.done = TRUE]
    /\ UNCHANGED <<args, pc, err, dirCreated, filesRead, written, last_written, images,
                   tf_X, tf_step, i, checkpoints, results, fed_X, lr_step, sched>>

NextRate == RateCompute

SpecRate == InitRate /\ [][NextRate]_vars

-----------------------------------------------------------------------------
(* Properties *)

InRange(X) == \A k \in DOMAIN X : TOLERANCE <= X[k] /\ X[k] <= ONE - TOLERANCE

\* C1 as stated: the checkpoint set contains 0 and total_steps and every
\* element lies in [0, total_steps].
C1_AllWithinTotalSteps ==
    sched.done =>
        /\ 0 \in sched.cp_a
        /\ sched.a \in sched.cp_a
        /\ \A c \in sched.cp_a : 0 <= c /\ c <= sched.a

\* C1 amended: the checkpoint set contains 0 and total_steps, no element is
\* negative, and every element outside the fixed dense prefix lies in
\* [0, total_steps]; the dense prefix is present whatever total_steps is.
C1_ContainsEndsPrefixMayExceed ==
    sched.done =>
        /\ 0 \in sched.cp_a
        /\ sched.a \in sched.cp_a
        /\ DensePrefix \subseteq sched.cp_a
        /\ \A c \in sched.cp_a : 0 <= c /\ (c \notin DensePrefix => c <= sched.a)

C1_Witness ==
    sched.done /\ sched.a < 1500 /\ 1500 \in sched.cp_a /\ sched.a \notin DensePrefix

\* C2 as stated: for a < b, every c <= a of the set for a is in the set for b.
C2_MonotoneIncludingFinal ==
    sched.done => \A c \in sched.cp_a : c <= sched.a => c \in sched.cp_b

\* C2 amended: for a < b, every c < a of the set for a is in the set for b;
\* the final checkpoint a itself is kept only if the prefix or the stride hits it.
C2_MonotoneBelowFinal ==
    sched.done => \A c \in sched.cp_a : c < sched.a => c \in sched.cp_b

C2_Witness ==
    /\ sched.done
    /\ sched.a \notin sched.cp_b
    /\ \E c \in sched.cp_a : c >= StrideStart /\ c < sched.a /\ c \in sched.cp_b

\* C3: whenever the metric is about to be evaluated, and whenever it has been
\* evaluated in this iteration, every element of the X it sees lies in
\* [TOLERANCE, 1 - TOLERANCE].
C3_EvaluatedInRange ==
    /\ pc \in {"iterate", "stats"} => InRange(tf_X)
    /\ InRange(fed_X)

\* An iteration after the first consumed a value the projection produced from
\* a step result of 1 - 0.000005, 1 or more.
C3_Witness ==
    /\ pc \in {"loop", "png"}
    /\ tf_step >= 2
    /\ fed_X # <<>>
    /\ fed_X[1] = ONE - TOLERANCE

PngWritten == {f \in written : f.prefix = "" /\ f.ext = ".png"}
NpyWritten == {f \in written : f.ext = ".npy"}

ExpectedPng(total_steps) ==
    {n \in 0..total_steps :
        n \in DensePrefix \/ (n >= 2000 /\ n % 500 = 0) \/ n = total_steps}
ExpectedNpy(total_steps) == {n \in 0..total_steps : n % 10000 = 0}

\* C4: a completed run has written {i:06d}.png for exactly the iterations in
\* the dense prefix, on the stride or equal to total_steps, and
\* save_{i:06d}.npy for exactly the multiples of 10000; --steps=10 and
\* --steps=0 give the files listed.
C4_FilesWritten ==
    pc = "done" =>
          /\ PngWritten = {PngName(n) : n \in ExpectedPng(args.steps)}
          /\ NpyWritten = {NpyName(n) : n \in ExpectedNpy(args.steps)}
          /\ args.steps = 10 =>
                /\ {f.num : f \in PngWritten} =
                      { <<0,0,0,0,0,0>>, <<0,0,0,0,0,1>>, <<0,0,0,0,0,2>>, <<0,0,0,0,0,3>>,
                        <<0,0,0,0,0,5>>, <<0,0,0,0,0,7>>, <<0,0,0,0,1,0>> }
                /\ NpyWritten = {[prefix |-> "save_", num |-> <<0,0,0,0,0,0>>, ext |-> ".npy"]}
          /\ args.steps = 0 =>
                /\ tf_step = 1
                /\ {f.num : f \in PngWritten} = { <<0,0,0,0,0,0>> }
                /\ NpyWritten = {[prefix |-> "save_", num |-> <<0,0,0,0,0,0>>, ext |-> ".npy"]}
                /\ [prefix |-> "initial_image", num |-> <<>>, ext |-> ".png"] \in written

C4_Witness ==
    /\ pc = "done"
    /\ args.steps >= 10000
    /\ [prefix |-> "save_", num |-> <<0,1,0,0,0,0>>, ext |-> ".npy"] \in written
    /\ [prefix |-> "", num |-> <<0,0,2,5,0,0>>, ext |-> ".png"] \in written

SlicedShape(file) == IF Sliceable(file.shape) THEN SliceChannels(file.shape) ELSE file.shape
UnknownType(file) == Lower(file.ext) \notin {".npy", ".png", ".jpg"}

\* C6: with an unsupported --metric the directory is never created and no file
\* is read or written; with an unrecognized extension of either input, or two
\* inputs of different shape, no PNG file is ever written.
C6_ErrorsBeforeOutput ==
    /\ args.metric \notin {"elpips_vgg", "elpips_squeeze_maxpool", "lpips_vgg", "lpips_squeeze"} =>
          /\ ~dirCreated /\ filesRead = {} /\ written = {}
          /\ pc \in {"check_metric", "error"}
    /\ (\/ UnknownType(args.images[1])
        \/ UnknownType(args.images[2])
        \/ SlicedShape(args.images[1]) # SlicedShape(args.images[2])) =>
          {f \in written : f.ext = ".png"} = {}
    /\ pc = "error" => {f \in written : f.ext = ".png"} = {}

C6_Witness ==
    /\ pc = "error"
    /\ err = "Image has wrong shape."
    /\ dirCreated
    /\ filesRead = {1, 2}

\* C7: the scheduled rate is strictly positive at every counter value and does
\* not increase from one counter value to the next.
C7_RatePositiveNonIncreasing ==
    rate.done =>
        /\ RatePositive(rate.cur)
        /\ RatePositive(rate.next)
        /\ RateLeq(rate.next, rate.cur)

C7_Witness ==
    /\ rate.done
    /\ rate.i >= 1000
    /\ ~RateLeq(rate.cur, rate.next)

\* C8: the counter equals i when iteration i begins and until its gradient step
\* has run, i + 1 from then to the end of the iteration, and total_steps + 1
\* when the loop has finished.
C8_CounterOncePerIteration ==
    /\ pc \in {"loop", "iterate", "stats"} => tf_step = i
    /\ pc \in {"png", "npy"} => tf_step = i + 1
    /\ pc = "done" => tf_step = args.steps + 1

C8_Witness ==
    /\ pc = "done"
    /\ args.steps >= 5
    /\ tf_step >= 6

\* C9: the learning rate a gradient step uses is the one scheduled for the
\* counter value after this iteration's increment.
C9_RateFromUpdatedCounter ==
    lr_step # NoStep => lr_step = tf_step

\* C10: the array written to save_{i:06d}.npy is X after the projection and
\* before the gradient step of iteration i, with every element in
\* [TOLERANCE, 1 - TOLERANCE].
C10_SavedBeforeStep ==
    last_written.name.ext = ".npy" =>
        /\ last_written.data = fed_X
        /\ InRange(last_written.data)

====
